---- MODULE Spec2Model ----
(***************************************************************************)
(* Process discovery and target reconciliation of the tracer.              *)
(*                                                                         *)
(* Go strings are modelled as sequences of one-character strings, so that  *)
(* strings.Split, strings.Contains, path.Base, filepath.Ext, url.Parse and *)
(* strconv.Atoi are computed character by character as the library does.   *)
(* A uint32 is modelled as a pair of 16-bit halves [hi, lo] (its value is   *)
(* hi * 65536 + lo), which keeps the full 32-bit width of the conversion    *)
(* uint32(pidNumber).                                                       *)
(***************************************************************************)
EXTENDS Integers, Sequences, FiniteSets, TLC

(***************************************************************************)
(* Characters and string literals                                          *)
(***************************************************************************)
Digits == {"0", "1", "2", "3", "4", "5", "6", "7", "8", "9"}

Letters == {"a", "b", "c", "d", "e", "f", "g", "h", "i", "j", "k", "l", "m",
            "n", "o", "p", "q", "r", "s", "t", "u", "v", "w", "x", "y", "z"}

\* unicode.IsSpace restricted to the ASCII characters the model uses
Spaces == {" ", "\n", "\t", "\r"}

NL == "\n"

DigitVal(c) ==
  CASE c = "0" -> 0 [] c = "1" -> 1 [] c = "2" -> 2 [] c = "3" -> 3
    [] c = "4" -> 4 [] c = "5" -> 5 [] c = "6" -> 6 [] c = "7" -> 7
    [] c = "8" -> 8 [] c = "9" -> 9

(***************************************************************************)
(* package strings                                                         *)
(***************************************************************************)
\* strings.HasPrefix
HasPrefix(s, p) == Len(s) >= Len(p) /\ SubSeq(s, 1, Len(p)) = p

\* strings.HasSuffix
HasSuffix(s, p) == Len(s) >= Len(p) /\ SubSeq(s, Len(s) - Len(p) + 1, Len(s)) = p

\* strings.Contains
Contains(s, sub) ==
  \E i \in 1..(Len(s) - Len(sub) + 1) : SubSeq(s, i, i + Len(sub) - 1) = sub

\* strings.Index for a one-character separator, 1-based; 0 when absent
IndexOf(s, c) ==
  IF \E i \in 1..Len(s) : s[i] = c
  THEN CHOOSE i \in 1..Len(s) : s[i] = c /\ \A j \in 1..(i - 1) : s[j] # c
  ELSE 0

\* strings.LastIndex for a one-character separator, 1-based; 0 when absent
LastIndexOf(s, c) ==
  IF \E i \in 1..Len(s) : s[i] = c
  THEN CHOOSE i \in 1..Len(s) : s[i] = c /\ \A j \in (i + 1)..Len(s) : s[j] # c
  ELSE 0

\* strings.Split(s, c) for a one-character separator: the substrings between
\* the occurrences of c, in order; never empty
Split(s, c) ==
  LET seps == {i \in 1..Len(s) : s[i] = c}
      n == Cardinality(seps)
      at(k) == IF k = 0 THEN 0
               ELSE IF k = n + 1 THEN Len(s) + 1
               ELSE CHOOSE i \in seps : Cardinality({j \in seps : j < i}) = k - 1
  IN [k \in 1..(n + 1) |-> SubSeq(s, at(k - 1) + 1, at(k) - 1)]

\* parts[len(parts)-1]
LastPart(parts) == parts[Len(parts)]

\* strings.TrimSpace
TrimSpace(s) ==
  IF \A i \in 1..Len(s) : s[i] \in Spaces THEN <<>>
  ELSE LET a == CHOOSE i \in 1..Len(s) :
                  s[i] \notin Spaces /\ \A j \in 1..(i - 1) : s[j] \in Spaces
           b == CHOOSE i \in 1..Len(s) :
                  s[i] \notin Spaces /\ \A j \in (i + 1)..Len(s) : s[j] \in Spaces
       IN SubSeq(s, a, b)

\* strings.TrimSuffix
TrimSuffix(s, suffix) ==
  IF HasSuffix(s, suffix) THEN SubSeq(s, 1, Len(s) - Len(suffix)) ELSE s

(***************************************************************************)
(* package path, package path/filepath                                     *)
(***************************************************************************)
\* path.Base: "" gives ".", trailing slashes are dropped, all slashes gives "/"
Base(p) ==
  IF p = <<>> THEN <<".">>
  ELSE IF \A i \in 1..Len(p) : p[i] = "/" THEN <<"/">>
  ELSE LET e == CHOOSE i \in 1..Len(p) :
                  p[i] # "/" /\ \A j \in (i + 1)..Len(p) : p[j] = "/"
           q == SubSeq(p, 1, e)
       IN SubSeq(q, LastIndexOf(q, "/") + 1, Len(q))

\* filepath.Ext: from the last dot of the last path element, "" when none
Ext(p) ==
  LET slash == LastIndexOf(p, "/")
      dot == LastIndexOf(p, ".")
  IN IF dot > slash THEN SubSeq(p, dot, Len(p)) ELSE <<>>

(***************************************************************************)
(* Cgroup path normalizer                                                  *)
(***************************************************************************)
PidsMarker == <<":", "p", "i", "d", "s", ":">>

RECURSIVE FirstPidsLine(_)
\* the loop of extractCgroup: the first line containing ":pids:"
FirstPidsLine(lines) ==
  IF lines = <<>> THEN <<>>
  ELSE IF Contains(Head(lines), PidsMarker) THEN LastPart(Split(Head(lines), ":"))
  ELSE FirstPidsLine(Tail(lines))

\* extractCgroup taking, when no line names the pids controller, the path of
\* the first line
extractCgroupFirstLine(lines) ==
  IF Len(lines) = 1 \/ FirstPidsLine(lines) = <<>>
  THEN LastPart(Split(lines[1], ":"))
  ELSE FirstPidsLine(lines)

extractCgroup(lines) ==
  IF Len(lines) = 1 THEN LastPart(Split(lines[1], ":"))
  ELSE FirstPidsLine(lines)

\* normalizeCgroup without the removal of the dotted suffix
normalizeCgroupKeepSuffix(cgrouppath) ==
  LET basename == TrimSpace(Base(cgrouppath))
  IN IF Contains(basename, <<"-">>)
     THEN SubSeq(basename, IndexOf(basename, "-") + 1, Len(basename))
     ELSE basename

normalizeCgroup(cgrouppath) ==
  LET basename == TrimSpace(Base(cgrouppath))
      undashed == IF Contains(basename, <<"-">>)
                  THEN SubSeq(basename, IndexOf(basename, "-") + 1, Len(basename))
                  ELSE basename
  IN IF Contains(undashed, <<".">>) THEN TrimSuffix(undashed, Ext(undashed))
     ELSE undashed

\* getProcessCgroup without the split of the extracted path on "-"
getProcessCgroupNoSplit(file) ==
  IF ~file.ok THEN [err |-> TRUE, id |-> <<>>]
  ELSE LET cgrouppath == extractCgroup(Split(file.data, NL))
       IN IF cgrouppath = <<>> THEN [err |-> TRUE, id |-> <<>>]
          ELSE [err |-> FALSE, id |-> normalizeCgroup(cgrouppath)]

\* file is the outcome of os.ReadFile on <procfs>/<pid>/cgroup:
\* [ok |-> FALSE] or [ok |-> TRUE, data |-> content]
getProcessCgroup(file) ==
  IF ~file.ok THEN [err |-> TRUE, id |-> <<>>]
  ELSE LET lines == Split(file.data, NL)
           extracted == extractCgroup(lines)
           cgrouppath == IF Contains(extracted, <<"-">>)
                         THEN LastPart(Split(extracted, "-"))
                         ELSE extracted
       IN IF cgrouppath = <<>> THEN [err |-> TRUE, id |-> <<>>]
          ELSE [err |-> FALSE, id |-> normalizeCgroup(cgrouppath)]

(***************************************************************************)
(* net/url.Parse, for strings over letters, digits and ":/-.+ " (no        *)
(* fragment, query, userinfo, escape or bracket characters): the fields    *)
(* the index builder reads, err and Host                                   *)
(***************************************************************************)
RECURSIVE SchemeScan(_, _)
\* getScheme: [err, scheme, rest], scanning rawURL from position i
SchemeScan(rawURL, i) ==
  IF i > Len(rawURL) THEN [err |-> FALSE, scheme |-> <<>>, rest |-> rawURL]
  ELSE LET c == rawURL[i] IN
       IF c \in Letters THEN SchemeScan(rawURL, i + 1)
       ELSE IF c \in Digits \cup {"+", "-", "."}
       THEN IF i = 1 THEN [err |-> FALSE, scheme |-> <<>>, rest |-> rawURL]
            ELSE SchemeScan(rawURL, i + 1)
       ELSE IF c = ":"
       THEN IF i = 1 THEN [err |-> TRUE, scheme |-> <<>>, rest |-> <<>>]
            ELSE [err |-> FALSE, scheme |-> SubSeq(rawURL, 1, i - 1),
                  rest |-> SubSeq(rawURL, i + 1, Len(rawURL))]
       ELSE [err |-> FALSE, scheme |-> <<>>, rest |-> rawURL]

getScheme(rawURL) == SchemeScan(rawURL, 1)

\* validOptionalPort: "" or ":" followed by digits only
validOptionalPort(port) ==
  port = <<>> \/ (port[1] = ":" /\ \A i \in 2..Len(port) : port[i] \in Digits)

\* shouldEscape(c, encodeHost) for the characters of the model
HostCharOk(c) == c \in Letters \cup Digits \cup {":", "+", "-", "."}

\* parseHost: [err, host]
parseHost(host) ==
  LET i == LastIndexOf(host, ":")
  IN IF i # 0 /\ ~validOptionalPort(SubSeq(host, i, Len(host)))
     THEN [err |-> TRUE, host |-> <<>>]
     ELSE IF \E k \in 1..Len(host) : ~HostCharOk(host[k])
     THEN [err |-> TRUE, host |-> <<>>]
     ELSE [err |-> FALSE, host |-> host]

\* url.Parse: [err, host]
urlParse(rawURL) ==
  LET sch == getScheme(rawURL) IN
  IF sch.err THEN [err |-> TRUE, host |-> <<>>]
  ELSE LET rest == sch.rest IN
       IF ~HasPrefix(rest, <<"/">>) /\ sch.scheme # <<>>
       THEN [err |-> FALSE, host |-> <<>>]
       ELSE IF ~HasPrefix(rest, <<"/">>)
               /\ Contains(Split(rest, "/")[1], <<":">>)
       THEN [err |-> TRUE, host |-> <<>>]
       ELSE IF (sch.scheme # <<>> \/ ~HasPrefix(rest, <<"/", "/", "/">>))
               /\ HasPrefix(rest, <<"/", "/">>)
       THEN LET after == SubSeq(rest, 3, Len(rest))
                i == IndexOf(after, "/")
                authority == IF i > 0 THEN SubSeq(after, 1, i - 1) ELSE after
            IN parseHost(authority)
       ELSE [err |-> FALSE, host |-> <<>>]

(***************************************************************************)
(* Container index builder                                                 *)
(***************************************************************************)
EmptyMap == [k \in {} |-> {}]

\* m[k] = v
MapPut(m, k, v) == [x \in DOMAIN m \cup {k} |-> IF x = k THEN v ELSE m[x]]

RECURSIVE IndexContainers(_, _, _)
\* the inner loop of buildContainerIdsMap over pod.Status.ContainerStatuses
IndexContainers(result, pod, statuses) ==
  IF statuses = <<>> THEN result
  ELSE LET parsedUrl == urlParse(Head(statuses))
       IN IndexContainers(IF parsedUrl.err THEN result
                          ELSE MapPut(result, parsedUrl.host, pod),
                          pod, Tail(statuses))

RECURSIVE IndexPods(_, _)
\* the outer loop of buildContainerIdsMap
IndexPods(result, pods) ==
  IF pods = <<>> THEN result
  ELSE IndexPods(IndexContainers(result, Head(pods), Head(pods).statuses),
                 Tail(pods))

\* a pod is [name, statuses]: statuses are its container ID strings in order
buildContainerIdsMap(pods) == IndexPods(EmptyMap, pods)

(***************************************************************************)
(* strconv.Atoi, the conversion uint32(pidNumber), numberRegex             *)
(***************************************************************************)
\* numberRegex = "[0-9]+" is not anchored: MatchString finds a digit anywhere
numberRegexMatch(name) == \E i \in 1..Len(name) : name[i] \in Digits

RECURSIVE DecimalValue(_, _)
\* n = n*10 + int(ch) over the digits of s
DecimalValue(s, n) ==
  IF s = <<>> THEN n ELSE DecimalValue(Tail(s), n * 10 + DigitVal(Head(s)))

\* strconv.Atoi for names of 0 to 9 characters (its fast path): an optional
\* sign, then digits only; [err, n]
Atoi(s) ==
  IF s = <<>> THEN [err |-> TRUE, n |-> 0]
  ELSE LET signed == s[1] \in {"-", "+"}
           body == IF signed THEN Tail(s) ELSE s
       IN IF body = <<>> \/ \E i \in 1..Len(body) : body[i] \notin Digits
          THEN [err |-> TRUE, n |-> 0]
          ELSE [err |-> FALSE,
                n |-> IF s[1] = "-" THEN 0 - DecimalValue(body, 0)
                      ELSE DecimalValue(body, 0)]

Half == 65536

\* uint32(n) of an int n: n modulo 2^32, as the halves [hi, lo]
ToUint32(n) == [hi |-> (n \div Half) % Half, lo |-> n % Half]

(***************************************************************************)
(* Process enumerators.  procfs is the process table: [listOk, entries],   *)
(* entries the set of the directory's entries, of distinct names, each     *)
(* [name, isDir, cgroup, cmdline] with cgroup and cmdline the outcome of   *)
(* reading that entry's file.                                              *)
(***************************************************************************)
\* the characters of entry names, in the order of their bytes
ByteOrder ==
  <<"+", "-", ".", "0", "1", "2", "3", "4", "5", "6", "7", "8", "9", "_",
    "a", "b", "c", "d", "e", "f", "g", "h", "i", "j", "k", "l", "m", "n",
    "o", "p", "q", "r", "s", "t", "u", "v", "w", "x", "y", "z">>

ByteRank(c) == CHOOSE i \in DOMAIN ByteOrder : ByteOrder[i] = c

\* a < b for Go strings: byte-wise lexicographic order
StringLess(a, b) ==
  \E k \in 1..Len(b) :
    /\ k - 1 <= Len(a)
    /\ SubSeq(a, 1, k - 1) = SubSeq(b, 1, k - 1)
    /\ (Len(a) = k - 1 \/ ByteRank(a[k]) < ByteRank(b[k]))

\* os.ReadDir: the error of the listing, or the directory's entries sorted
\* by filename
ReadDir(procfs) ==
  IF ~procfs.listOk THEN [err |-> TRUE, pids |-> <<>>]
  ELSE [err |-> FALSE,
        pids |-> [k \in 1..Cardinality(procfs.entries) |->
                    CHOOSE e \in procfs.entries :
                      Cardinality({f \in procfs.entries :
                                     StringLess(f.name, e.name)}) = k - 1]]

RECURSIVE ScanClusterBreak(_, _, _)
\* the loop of findContainerPids leaving the loop at the first unreadable or
\* unmatched cgroup instead of going on to the next entry
ScanClusterBreak(result, pids, containerIds) ==
  IF pids = <<>> THEN result
  ELSE LET pid == Head(pids)
           cgroup == getProcessCgroup(pid.cgroup)
           pidNumber == Atoi(pid.name)
       IN IF ~pid.isDir THEN ScanClusterBreak(result, Tail(pids), containerIds)
          ELSE IF ~numberRegexMatch(pid.name)
          THEN ScanClusterBreak(result, Tail(pids), containerIds)
          ELSE IF cgroup.err THEN result
          ELSE IF cgroup.id \notin DOMAIN containerIds THEN result
          ELSE IF pidNumber.err
          THEN ScanClusterBreak(result, Tail(pids), containerIds)
          ELSE ScanClusterBreak(MapPut(result, ToUint32(pidNumber.n),
                                       containerIds[cgroup.id]),
                                Tail(pids), containerIds)

RECURSIVE ScanCluster(_, _, _)
\* the loop of findContainerPids
ScanCluster(result, pids, containerIds) ==
  IF pids = <<>> THEN result
  ELSE LET pid == Head(pids)
           cgroup == getProcessCgroup(pid.cgroup)
           pidNumber == Atoi(pid.name)
       IN IF ~pid.isDir THEN ScanCluster(result, Tail(pids), containerIds)
          ELSE IF ~numberRegexMatch(pid.name)
          THEN ScanCluster(result, Tail(pids), containerIds)
          ELSE IF cgroup.err THEN ScanCluster(result, Tail(pids), containerIds)
          ELSE IF cgroup.id \notin DOMAIN containerIds
          THEN ScanCluster(result, Tail(pids), containerIds)
          ELSE IF pidNumber.err THEN ScanCluster(result, Tail(pids), containerIds)
          ELSE ScanCluster(MapPut(result, ToUint32(pidNumber.n),
                                  containerIds[cgroup.id]),
                           Tail(pids), containerIds)

\* [err, result]: result maps uint32 PIDs to pods
findContainerPids(procfs, containerIds) ==
  LET dir == ReadDir(procfs)
  IN IF dir.err THEN [err |-> TRUE, result |-> EmptyMap]
     ELSE [err |-> FALSE, result |-> ScanCluster(EmptyMap, dir.pids, containerIds)]

\* cmdLineRegex is [nil |-> TRUE] or [nil |-> FALSE, pattern |-> p] with p a
\* pattern of literal characters, which matches where p occurs in the text
regexMatch(cmdLineRegex, text) == Contains(text, cmdLineRegex.pattern)

RECURSIVE ScanHostBreak(_, _, _)
\* the loop of findContainerPidsHost leaving the loop at the first command
\* line that cannot be read
ScanHostBreak(result, pids, cmdLineRegex) ==
  IF pids = <<>> THEN result
  ELSE LET pid == Head(pids)
           pidNumber == Atoi(pid.name)
       IN IF ~pid.isDir THEN ScanHostBreak(result, Tail(pids), cmdLineRegex)
          ELSE IF ~numberRegexMatch(pid.name)
          THEN ScanHostBreak(result, Tail(pids), cmdLineRegex)
          ELSE IF pidNumber.err THEN ScanHostBreak(result, Tail(pids), cmdLineRegex)
          ELSE IF ~cmdLineRegex.nil /\ ~pid.cmdline.ok THEN result
          ELSE IF ~cmdLineRegex.nil /\ ~regexMatch(cmdLineRegex, pid.cmdline.data)
          THEN ScanHostBreak(result, Tail(pids), cmdLineRegex)
          ELSE ScanHostBreak(Append(result, ToUint32(pidNumber.n)),
                             Tail(pids), cmdLineRegex)

RECURSIVE ScanHost(_, _, _)
\* the loop of findContainerPidsHost
ScanHost(result, pids, cmdLineRegex) ==
  IF pids = <<>> THEN result
  ELSE LET pid == Head(pids)
           pidNumber == Atoi(pid.name)
       IN IF ~pid.isDir THEN ScanHost(result, Tail(pids), cmdLineRegex)
          ELSE IF ~numberRegexMatch(pid.name)
          THEN ScanHost(result, Tail(pids), cmdLineRegex)
          ELSE IF pidNumber.err THEN ScanHost(result, Tail(pids), cmdLineRegex)
          ELSE IF ~cmdLineRegex.nil /\ ~pid.cmdline.ok
          THEN ScanHost(result, Tail(pids), cmdLineRegex)
          ELSE IF ~cmdLineRegex.nil /\ ~regexMatch(cmdLineRegex, pid.cmdline.data)
          THEN ScanHost(result, Tail(pids), cmdLineRegex)
          ELSE ScanHost(Append(result, ToUint32(pidNumber.n)),
                        Tail(pids), cmdLineRegex)

\* [err, result]: result is the slice of uint32 PIDs in listing order
findContainerPidsHost(procfs, cmdLineRegex) ==
  LET dir == ReadDir(procfs)
  IN IF dir.err THEN [err |-> TRUE, result |-> <<>>]
     ELSE [err |-> FALSE, result |-> ScanHost(<<>>, dir.pids, cmdLineRegex)]

(***************************************************************************)
(* Inputs of the reconciliation model: container statuses, pods, cgroup    *)
(* files and process tables                                                *)
(***************************************************************************)
\* "docker://a1"
StatusA ==
  <<"d", "o", "c", "k", "e", "r", ":", "/", "/", "a", "1">>

\* "docker://b2"
StatusB ==
  <<"d", "o", "c", "k", "e", "r", ":", "/", "/", "b", "2">>

\* a container ID with no "://"
StatusBad ==
  <<"b", "2">>

\* cgroup v1, cgroupfs driver: the pids line names container a1
CgroupV1A ==
  <<"4", ":", "c", "p", "u", ":", "/", "d", "o", "c", "k", "e", "r", "/",
    "a", "1", "\n", "5", ":", "p", "i", "d", "s", ":", "/", "d", "o", "c",
    "k", "e", "r", "/", "a", "1", "\n">>

\* cgroup v1, systemd driver: the pids line names container b2
CgroupSystemdB ==
  <<"5", ":", "p", "i", "d", "s", ":", "/", "k", "u", "b", "e", "p", "o",
    "d", "s", ".", "s", "l", "i", "c", "e", "/", "k", "u", "b", "e", "p",
    "o", "d", "s", "-", "b", "u", "r", "s", "t", "a", "b", "l", "e", "-",
    "p", "o", "d", "u", "_", "v", ".", "s", "l", "i", "c", "e", "/", "d",
    "o", "c", "k", "e", "r", "-", "b", "2", ".", "s", "c", "o", "p", "e",
    "\n">>

CmdOpenssl ==
  <<"o", "p", "e", "n", "s", "s", "l", " ", "s", "_", "s", "e", "r", "v",
    "e", "r">>

CmdNginx ==
  <<"n", "g", "i", "n", "x">>

\* the configured command-line pattern of host mode
PatternSsl ==
  <<"s", "s", "l">>

PodA == [name |-> "podA", statuses |-> <<StatusA>>]

PodB == [name |-> "podB", statuses |-> <<StatusB, StatusBad>>]

\* the pod lists a trigger may deliver
PodLists == {<<PodA, PodB>>, <<PodA>>}

Unreadable == [ok |-> FALSE, data |-> <<>>]

Readable(data) == [ok |-> TRUE, data |-> data]

Entry1 ==
  [name |-> <<"1">>, isDir |-> TRUE, cgroup |-> Readable(CgroupV1A),
   cmdline |-> Readable(CmdOpenssl)]

Entry2 ==
  [name |-> <<"2">>, isDir |-> TRUE, cgroup |-> Readable(CgroupSystemdB),
   cmdline |-> Unreadable]

Entry17 ==
  [name |-> <<"1", "7">>, isDir |-> TRUE, cgroup |-> Unreadable,
   cmdline |-> Readable(CmdNginx)]

EntryAbc ==
  [name |-> <<"a", "b", "c">>, isDir |-> TRUE, cgroup |-> Unreadable,
   cmdline |-> Unreadable]

\* the process tables a pass may find: unreadable root, or a directory
Procfs ==
  {[listOk |-> FALSE, entries |-> {}],
   [listOk |-> TRUE, entries |-> {Entry1, EntryAbc, Entry2}],
   [listOk |-> TRUE, entries |-> {EntryAbc, Entry2}]}

\* the command-line patterns host mode may be configured with
Regexes == {[nil |-> TRUE, pattern |-> <<>>], [nil |-> FALSE, pattern |-> PatternSsl]}

(***************************************************************************)
(* The program: run() on the main goroutine, the watcher's listener        *)
(* goroutine that calls updateTargets on every event, and the capture      *)
(* engine's poller.                                                        *)
(***************************************************************************)
VARIABLES
  clusterMode,   \* rest.InClusterConfig() succeeded
  cmdLineRegex,  \* the pattern host mode is configured with
  envPids,       \* the kinds whose KUBESHARK_GLOBAL_*_PID variable is set
  tracer,        \* the global tracer: "nil", "created" (before Init), "ready"
  status,        \* the process: "running", "fatal" (log.Fatal), "panic"
  pc,            \* the position of each goroutine
  events,        \* watcher events delivered so far
  pids,          \* per goroutine: the PIDs the loop of its pass has yet to visit
  res,           \* per goroutine: what its pass returned
  target,        \* the capture engine's target set, per kind
  found,         \* per goroutine: the PIDs its pass discovered
  tried,         \* per goroutine: the registrations its pass attempted
  added,         \* per goroutine: the registrations of its pass that succeeded,
                 \* kept for a pass that no other pass overlaps
  clears,        \* per goroutine: the ClearPids calls of its pass
  rejected,      \* per goroutine: the engine rejected the clear of its pass
  overlap,       \* per goroutine: another pass was in progress during its pass
  listErr,       \* per goroutine: the enumerator of its pass returned an error
  overtaken,     \* per goroutine: the other pass cleared after its pass's clear
  lostUpdate,    \* the target set holds a PID that a pass added after the
                 \* other pass's later clear
  committed,     \* the target set when the last pass returned
  observed,      \* the target set as the poller read it last
  obsMid,        \* the poller's last read fell inside a pass's clear/add sequence
  globalTried,   \* the global registrations attempted at startup
  fnIn,          \* input of the function under check
  fnOut          \* its result

vars ==
  <<clusterMode, cmdLineRegex, envPids, tracer, status, pc, events, pids, res,
    target, found, tried, added, clears, rejected, overlap, listErr, overtaken,
    lostUpdate, committed, observed, obsMid, globalTried, fnIn, fnOut>>

\* the variables of a pass, the engine and the poller
passVars ==
  <<pids, res, target, found, tried, added, clears, rejected, overlap, listErr,
    overtaken, lostUpdate, committed>>

config == <<clusterMode, cmdLineRegex, envPids, fnIn, fnOut>>

\* watcher events delivered in one run
MaxEvents == 1

Procs == {"main", "watcher"}

Other(p) == IF p = "main" THEN "watcher" ELSE "main"

Kinds == {"ssl", "go"}

NoTargets == [k \in Kinds |-> {}]

PassPcs == {"enum", "clear", "ssl", "go", "ret"}

\* a pass of p has been triggered and has not returned to its caller yet
InPass(p) == pc[p] \in PassPcs

\* p is inside the clear/add sequence of its pass
InSequence(p) == pc[p] \in {"ssl", "go"} \/ (pc[p] = "ret" /\ clears[p] > 0)

RECURSIVE Orders(_)
\* the orders in which ranging over a Go map may visit the keys S
Orders(S) ==
  IF S = {} THEN {<<>>}
  ELSE UNION {{<<x>> \o o : o \in Orders(S \ {x})} : x \in S}

Range(f) == {f[i] : i \in DOMAIN f}

NoInput == [op |-> "none"]

Init ==
  /\ clusterMode \in BOOLEAN
  /\ cmdLineRegex \in (IF clusterMode THEN {[nil |-> TRUE, pattern |-> <<>>]}
                       ELSE Regexes)
  /\ envPids \in SUBSET Kinds
  /\ tracer = "nil"
  /\ status = "running"
  /\ pc = [p \in Procs |-> IF p = "main" THEN "start" ELSE "off"]
  /\ events = 0
  /\ pids = [p \in Procs |-> <<>>]
  /\ res = [p \in Procs |-> "none"]
  /\ target = NoTargets
  /\ found = [p \in Procs |-> {}]
  /\ tried = [p \in Procs |-> {}]
  /\ added = [p \in Procs |-> NoTargets]
  /\ clears = [p \in Procs |-> 0]
  /\ rejected = [p \in Procs |-> FALSE]
  /\ overlap = [p \in Procs |-> FALSE]
  /\ listErr = [p \in Procs |-> FALSE]
  /\ overtaken = [p \in Procs |-> FALSE]
  /\ lostUpdate = FALSE
  /\ committed = NoTargets
  /\ observed = NoTargets
  /\ obsMid = FALSE
  /\ globalTried = {}
  /\ fnIn = NoInput
  /\ fnOut = NoInput

\* the state of a goroutine's pass when the pass is triggered
BeginPass(p) ==
  /\ pids' = [pids EXCEPT ![p] = <<>>]
  /\ res' = [res EXCEPT ![p] = "none"]
  /\ found' = [found EXCEPT ![p] = {}]
  /\ tried' = [tried EXCEPT ![p] = {}]
  /\ added' = [q \in Procs |-> NoTargets]
  /\ clears' = [clears EXCEPT ![p] = 0]
  /\ rejected' = [rejected EXCEPT ![p] = FALSE]
  /\ listErr' = [listErr EXCEPT ![p] = FALSE]
  /\ overtaken' = [overtaken EXCEPT ![p] = FALSE]
  /\ overlap' = [q \in Procs |-> IF q = p THEN InPass(Other(p))
                                 ELSE overlap[q] \/ InPass(q)]
  /\ UNCHANGED <<target, lostUpdate, committed>>

\* run(): kubernetes.NewFromInCluster(errOut, updateTargets); watcher.Start
StartWatcher ==
  /\ status = "running" /\ pc["main"] = "start"
  /\ pc' = [pc EXCEPT !["main"] = "node", !["watcher"] = "idle"]
  /\ UNCHANGED <<config, tracer, status, events, passVars, observed, obsMid,
                 globalTried>>

\* run(): in cluster mode kubernetes.GetThisNodeName, fatal when it fails
GetThisNodeName ==
  /\ status = "running" /\ pc["main"] = "node"
  /\ \E ok \in (IF clusterMode THEN BOOLEAN ELSE {TRUE}) :
       IF ok THEN pc' = [pc EXCEPT !["main"] = "new"] /\ status' = status
       ELSE pc' = pc /\ status' = "fatal"
  /\ UNCHANGED <<config, tracer, events, passVars, observed, obsMid, globalTried>>

\* createTracer: tracer = &Tracer{procfs: *procfs}
NewTracer ==
  /\ status = "running" /\ pc["main"] = "new"
  /\ tracer' = "created"
  /\ pc' = [pc EXCEPT !["main"] = "init"]
  /\ UNCHANGED <<config, status, events, passVars, observed, obsMid, globalTried>>

\* createTracer: tracer.Init; on success the startup pass is called
TracerInit ==
  /\ status = "running" /\ pc["main"] = "init"
  /\ \E ok \in BOOLEAN :
       IF ok
       THEN /\ tracer' = "ready"
            /\ pc' = [pc EXCEPT !["main"] = "enum"]
            /\ status' = status
            /\ BeginPass("main")
       ELSE /\ status' = "fatal"
            /\ UNCHANGED <<tracer, pc, passVars>>
  /\ UNCHANGED <<config, events, observed, obsMid, globalTried>>

\* the watcher's listener delivers an event: it calls updateTargets
WatcherEvent ==
  /\ status = "running" /\ pc["watcher"] = "idle"
  /\ events < MaxEvents
  /\ events' = events + 1
  /\ pc' = [pc EXCEPT !["watcher"] = "enum"]
  /\ BeginPass("watcher")
  /\ UNCHANGED <<config, tracer, status, observed, obsMid, globalTried>>

\* a panic ends the process: nothing else changes
Panic ==
  /\ status' = "panic"
  /\ UNCHANGED <<config, tracer, pc, events, passVars, observed, obsMid,
                 globalTried>>

\* the pass going on to clear the target set whatever the enumerator returned
AfterEnumerateIgnoreErr(p, err, order) ==
  /\ pc' = [pc EXCEPT ![p] = "clear"]
  /\ pids' = [pids EXCEPT ![p] = order]
  /\ found' = [found EXCEPT ![p] = Range(order)]
  /\ res' = res

\* UpdateTargets and UpdateTargetsHost after the enumerator returned: the
\* error is returned, or the pass goes on to clear the target set
AfterEnumerate(p, err, order) ==
  IF err
  THEN /\ pc' = [pc EXCEPT ![p] = "ret"]
       /\ res' = [res EXCEPT ![p] = "error"]
       /\ UNCHANGED <<pids, found>>
  ELSE /\ pc' = [pc EXCEPT ![p] = "clear"]
       /\ pids' = [pids EXCEPT ![p] = order]
       /\ found' = [found EXCEPT ![p] = Range(order)]
       /\ res' = res

\* UpdateTargets up to the call of ClearPids: the index is built and the
\* processes are enumerated; reading tracer.procfs of a nil tracer panics
UpdateTargets(p) ==
  /\ status = "running" /\ pc[p] = "enum" /\ clusterMode
  /\ IF tracer = "nil" THEN Panic
     ELSE /\ \E pods \in PodLists, procfs \in Procfs :
               LET containerIds == buildContainerIdsMap(pods)
                   containerPids == findContainerPids(procfs, containerIds)
               IN /\ \E order \in Orders(DOMAIN containerPids.result) :
                       AfterEnumerate(p, containerPids.err, order)
                  /\ listErr' = [listErr EXCEPT ![p] = containerPids.err]
          /\ UNCHANGED <<config, tracer, status, events, target, tried, added,
                         clears, rejected, overlap, overtaken, lostUpdate, committed,
                         observed, obsMid, globalTried>>

\* UpdateTargetsHost up to the call of ClearPids
UpdateTargetsHost(p) ==
  /\ status = "running" /\ pc[p] = "enum" /\ ~clusterMode
  /\ IF tracer = "nil" THEN Panic
     ELSE /\ \E procfs \in Procfs :
               LET hostPids == findContainerPidsHost(procfs, cmdLineRegex)
               IN /\ AfterEnumerate(p, hostPids.err, hostPids.result)
                  /\ listErr' = [listErr EXCEPT ![p] = hostPids.err]
          /\ UNCHANGED <<config, tracer, status, events, target, tried, added,
                         clears, rejected, overlap, overtaken, lostUpdate, committed,
                         observed, obsMid, globalTried>>

\* the outcomes of a call to the capture engine: it succeeds or returns an
\* error; before tracer.Init has completed it fails or panics
EngineOutcomes == IF tracer = "ready" THEN {"ok", "error"} ELSE {"error", "panic"}

\* the loop over the discovered PIDs: its next position, and the nil the
\* pass returns after the last PID
LoopNext(p, rest) ==
  /\ pids' = [pids EXCEPT ![p] = rest]
  /\ pc' = [pc EXCEPT ![p] = IF rest = <<>> THEN "ret" ELSE "ssl"]
  /\ res' = [res EXCEPT ![p] = IF rest = <<>> THEN "nil" ELSE res[p]]

\* the pass calling ClearPids again when the engine rejected the call
AfterClearRetry(p, outcome) ==
  IF outcome = "error" THEN UNCHANGED <<pids, pc, res>>
  ELSE LoopNext(p, pids[p])

\* what the pass does with the outcome of ClearPids: the call is a bare
\* statement, so the loop is entered whatever the engine answered
AfterClear(p, outcome) == LoopNext(p, pids[p])

\* the capture engine clears its whole target set, or rejects the call
EngineClear(p, outcome) ==
  IF outcome = "ok"
  THEN /\ target' = NoTargets
       /\ overtaken' = [q \in Procs |-> q # p /\ (overtaken[q] \/ pc[q] \in {"ssl", "go"})]
       /\ lostUpdate' = FALSE
       /\ rejected' = rejected
  ELSE /\ rejected' = [rejected EXCEPT ![p] = TRUE]
       /\ UNCHANGED <<target, overtaken, lostUpdate>>

\* tracer.ClearPids() in UpdateTargets and UpdateTargetsHost
ClearPids(p) ==
  /\ status = "running" /\ pc[p] = "clear"
  /\ \E outcome \in EngineOutcomes :
       IF outcome = "panic" THEN Panic
       ELSE /\ EngineClear(p, outcome)
            /\ AfterClear(p, outcome)
            /\ clears' = [clears EXCEPT ![p] = clears[p] + 1]
            /\ UNCHANGED <<config, tracer, status, events, found, tried, added,
                           overlap, listErr, committed, observed, obsMid,
                           globalTried>>

\* the capture engine registers pid as a target of kind k, or fails
EngineRegister(p, k, pid, outcome) ==
  IF outcome = "ok"
  THEN /\ target' = [target EXCEPT ![k] = target[k] \cup {pid}]
       /\ added' = IF overlap[p] THEN added
                   ELSE [added EXCEPT ![p][k] = added[p][k] \cup {pid}]
       /\ lostUpdate' = (lostUpdate \/ overtaken[p])
  ELSE UNCHANGED <<target, added, lostUpdate>>

\* the loop body registering the position in the slice, as a range clause
\* with a single variable yields, instead of the PID stored there
LoopPidIndex(p) == ToUint32(Cardinality(found[p]) - Len(pids[p]))

\* the pid the loop body registers: the key (UpdateTargets) or the element
\* (UpdateTargetsHost) the range clause yields
LoopPid(p) == Head(pids[p])

\* after AddSSLLibPid: on an error the loop goes on to the next pid, without
\* the call of AddGoPid for this one
AfterSSLSkipOnError(p, outcome) ==
  IF outcome = "error" THEN LoopNext(p, Tail(pids[p]))
  ELSE pc' = [pc EXCEPT ![p] = "go"] /\ UNCHANGED <<pids, res>>

\* after AddSSLLibPid: an error is logged, and AddGoPid is called for the
\* same pid whatever the outcome was
AfterSSL(p, outcome) ==
  /\ pc' = [pc EXCEPT ![p] = "go"]
  /\ UNCHANGED <<pids, res>>

\* tracer.AddSSLLibPid(tracer.procfs, pid)
AddSSLLibPid(p) ==
  /\ status = "running" /\ pc[p] = "ssl"
  /\ \E outcome \in EngineOutcomes :
       IF outcome = "panic" THEN Panic
       ELSE /\ EngineRegister(p, "ssl", LoopPid(p), outcome)
            /\ tried' = [tried EXCEPT ![p] = tried[p] \cup {<<"ssl", LoopPid(p)>>}]
            /\ AfterSSL(p, outcome)
            /\ UNCHANGED <<config, tracer, status, events, found, clears,
                           rejected, overlap, listErr, overtaken, committed,
                           observed, obsMid, globalTried>>

\* tracer.AddGoPid(tracer.procfs, pid): an error is logged, and the loop
\* goes on to the next pid
AddGoPid(p) ==
  /\ status = "running" /\ pc[p] = "go"
  /\ \E outcome \in EngineOutcomes :
       IF outcome = "panic" THEN Panic
       ELSE /\ EngineRegister(p, "go", LoopPid(p), outcome)
            /\ tried' = [tried EXCEPT ![p] = tried[p] \cup {<<"go", LoopPid(p)>>}]
            /\ LoopNext(p, Tail(pids[p]))
            /\ UNCHANGED <<config, tracer, status, events, found, clears,
                           rejected, overlap, listErr, overtaken, committed,
                           observed, obsMid, globalTried>>

\* the pass has returned: its locals are gone
EndPass(p) ==
  /\ pids' = [pids EXCEPT ![p] = <<>>]
  /\ res' = [res EXCEPT ![p] = "none"]
  /\ found' = [found EXCEPT ![p] = {}]
  /\ tried' = [tried EXCEPT ![p] = {}]
  /\ added' = [added EXCEPT ![p] = NoTargets]
  /\ clears' = [clears EXCEPT ![p] = 0]
  /\ rejected' = [rejected EXCEPT ![p] = FALSE]
  /\ overlap' = [overlap EXCEPT ![p] = FALSE]
  /\ listErr' = [listErr EXCEPT ![p] = FALSE]
  /\ overtaken' = [overtaken EXCEPT ![p] = FALSE]
  /\ committed' = target
  /\ UNCHANGED <<target, lostUpdate>>

\* createTracer after the startup pass: its error is returned to run(),
\* which ends the process with log.Fatal
StartupPassReturns ==
  /\ status = "running" /\ pc["main"] = "ret"
  /\ IF res["main"] = "error"
     THEN /\ status' = "fatal"
          /\ UNCHANGED <<pc, passVars>>
     ELSE /\ pc' = [pc EXCEPT !["main"] = "gssl"]
          /\ status' = status
          /\ EndPass("main")
  /\ UNCHANGED <<config, tracer, events, observed, obsMid, globalTried>>

\* the watcher's callback returns to the listener
WatcherPassReturns ==
  /\ status = "running" /\ pc["watcher"] = "ret"
  /\ pc' = [pc EXCEPT !["watcher"] = "idle"]
  /\ EndPass("watcher")
  /\ UNCHANGED <<config, tracer, status, events, observed, obsMid, globalTried>>

\* the PID an environment variable names as a global target: a process that
\* no pass discovers
GlobalPid == ToUint32(3)

\* the capture engine registers the global PID as a target of kind k, or
\* fails
EngineRegisterGlobal(k, ok) ==
  IF ok THEN target' = [target EXCEPT ![k] = target[k] \cup {GlobalPid}]
  ELSE target' = target

\* createTracer: one global target, registered when its variable is set; an
\* error is returned to run(), which ends the process
GlobalTarget(k, at, next) ==
  /\ status = "running" /\ pc["main"] = at
  /\ IF k \in envPids
     THEN \E ok \in BOOLEAN :
            /\ globalTried' = globalTried \cup {k}
            /\ EngineRegisterGlobal(k, ok)
            /\ IF ok THEN pc' = [pc EXCEPT !["main"] = next] /\ status' = status
               ELSE pc' = pc /\ status' = "fatal"
     ELSE /\ pc' = [pc EXCEPT !["main"] = next]
          /\ UNCHANGED <<globalTried, status, target>>
  /\ UNCHANGED <<config, tracer, events, pids, res, found, tried, added, clears,
                 rejected, overlap, listErr, overtaken, lostUpdate, committed,
                 observed, obsMid>>

\* tracer.globalSSLLibTarget under KUBESHARK_GLOBAL_LIBSSL_PID
GlobalSSLLibTarget == GlobalTarget("ssl", "gssl", "ggo")

\* tracer.globalGoTarget under KUBESHARK_GLOBAL_GOLANG_PID
GlobalGoTarget == GlobalTarget("go", "ggo", "poll")

\* tracer.poll: the capture engine's poller acts on the target set it finds
Poll ==
  /\ status = "running" /\ pc["main"] = "poll"
  /\ observed' = target
  /\ obsMid' = \E p \in Procs : pc[p] \in {"ssl", "go"}
  /\ UNCHANGED <<config, tracer, status, pc, events, passVars, globalTried>>

Next ==
  \/ StartWatcher
  \/ GetThisNodeName
  \/ NewTracer
  \/ TracerInit
  \/ WatcherEvent
  \/ \E p \in Procs : UpdateTargets(p)
  \/ \E p \in Procs : UpdateTargetsHost(p)
  \/ \E p \in Procs : ClearPids(p)
  \/ \E p \in Procs : AddSSLLibPid(p)
  \/ \E p \in Procs : AddGoPid(p)
  \/ StartupPassReturns
  \/ WatcherPassReturns
  \/ GlobalSSLLibTarget
  \/ GlobalGoTarget
  \/ Poll

Spec == Init /\ [][Next]_vars

(***************************************************************************)
(* The functions on their own: an input is drawn, one function is applied  *)
(***************************************************************************)
\* entries in a process-table listing
MaxListing == 3

\* characters in a container ID
MaxIdLen == 3

\* container statuses in the pod list given to the index builder
MaxStatuses == 2

SeqsUpTo(S, n) == UNION {[1..k -> S] : k \in 0..n}

\* "docker://abc123"
StatusAbc123 ==
  <<"d", "o", "c", "k", "e", "r", ":", "/", "/", "a", "b", "c", "1", "2",
    "3">>

\* "abc123": no "://"
StatusNoScheme ==
  <<"a", "b", "c", "1", "2", "3">>

\* "docker:abc123": no "://"
StatusOpaque ==
  <<"d", "o", "c", "k", "e", "r", ":", "a", "b", "c", "1", "2", "3">>

\* ":abc123": no "://", and no scheme before the colon
StatusColon ==
  <<":", "a", "b", "c", "1", "2", "3">>

\* "containerd://b2"
StatusContainerd ==
  <<"c", "o", "n", "t", "a", "i", "n", "e", "r", "d", ":", "/", "/", "b",
    "2">>

\* a cgroup file with several lines and none for the pids controller
CgroupNoPids ==
  <<"4", ":", "c", "p", "u", ":", "/", "d", "o", "c", "k", "e", "r", "/",
    "a", "1", "\n", "0", ":", ":", "/", "\n">>

\* the pids line names a container no pod has
CgroupUnknown ==
  <<"5", ":", "p", "i", "d", "s", ":", "/", "d", "o", "c", "k", "e", "r",
    "/", "z", "z", "\n">>

SchemeDocker ==
  <<"d", "o", "c", "k", "e", "r", ":", "/", "/">>

V2Prefix ==
  <<"0", ":", ":", "/", "k", "u", "b", "e", "p", "o", "d", "s", "/", "b",
    "e", "s", "t", "e", "f", "f", "o", "r", "t", "/", "p", "o", "d">>

V1Prefix ==
  <<"4", ":", "c", "p", "u", ":", "/", "d", "o", "c", "k", "e", "r", "/",
    "x", "\n", "5", ":", "p", "i", "d", "s", ":", "/", "d", "o", "c", "k",
    "e", "r", "/">>

SystemdPrefix ==
  <<"/", "k", "u", "b", "e", "p", "o", "d", "s", ".", "s", "l", "i", "c",
    "e", "/", "k", "u", "b", "e", "p", "o", "d", "s", "-", "b", "u", "r",
    "s", "t", "a", "b", "l", "e", ".", "s", "l", "i", "c", "e", "/", "k",
    "u", "b", "e", "p", "o", "d", "s", "-", "b", "u", "r", "s", "t", "a",
    "b", "l", "e", "-", "p", "o", "d">>

SystemdMiddle ==
  <<".", "s", "l", "i", "c", "e", "/", "d", "o", "c", "k", "e", "r", "-">>

ScopeSuffix ==
  <<".", "s", "c", "o", "p", "e">>

PidsLinePrefix ==
  <<"5", ":", "p", "i", "d", "s", ":">>

V2LinePrefix ==
  <<"0", ":", ":">>

StatusSet ==
  {StatusAbc123, StatusNoScheme, StatusOpaque, StatusColon, StatusContainerd,
   StatusA}

PodNames == <<"podA", "podB", "podC", "podD">>

\* the pod lists given to the index builder: one pod with up to MaxStatuses
\* container statuses, or one pod for each status
FnPodLists ==
  {<<[name |-> "podA", statuses |-> st]>> :
     st \in SeqsUpTo(StatusSet, MaxStatuses)}
  \cup {[i \in DOMAIN st |-> [name |-> PodNames[i], statuses |-> <<st[i]>>]] :
          st \in SeqsUpTo(StatusSet, MaxStatuses)}

EntryPlus5 ==
  [name |-> <<"+", "5">>, isDir |-> TRUE, cgroup |-> Readable(CgroupV1A),
   cmdline |-> Readable(CmdOpenssl)]

EntryMinus5 ==
  [name |-> <<"-", "5">>, isDir |-> TRUE, cgroup |-> Readable(CgroupSystemdB),
   cmdline |-> Readable(CmdNginx)]

Entry1a ==
  [name |-> <<"1", "a">>, isDir |-> TRUE, cgroup |-> Readable(CgroupV1A),
   cmdline |-> Readable(CmdOpenssl)]

\* a regular file with a numeric name
EntryFile3 ==
  [name |-> <<"3">>, isDir |-> FALSE, cgroup |-> Readable(CgroupV1A),
   cmdline |-> Readable(CmdOpenssl)]

Entry4 ==
  [name |-> <<"4">>, isDir |-> TRUE, cgroup |-> Readable(CgroupNoPids),
   cmdline |-> Readable(CmdNginx)]

Entry6 ==
  [name |-> <<"6">>, isDir |-> TRUE, cgroup |-> Readable(CgroupUnknown),
   cmdline |-> Readable(CmdOpenssl)]

\* a process of PodB whose name gives the PID that "+5" gives
Entry5 ==
  [name |-> <<"5">>, isDir |-> TRUE, cgroup |-> Readable(CgroupSystemdB),
   cmdline |-> Readable(CmdOpenssl)]

FnEntries ==
  {Entry1, Entry2, Entry17, EntryAbc, EntryPlus5, EntryMinus5, Entry1a,
   EntryFile3, Entry4, Entry5, Entry6}

\* the directory holding "1", "2", "abc" and "17"
ExampleDirectory == {Entry1, Entry2, EntryAbc, Entry17}

\* the directories of up to n entries of S, their names distinct
Directories(S, n) ==
  {d \in SUBSET S :
     /\ Cardinality(d) <= n
     /\ \A e, f \in d : e.name = f.name => e = f}

FnProcfs ==
  {[listOk |-> FALSE, entries |-> {}]}
  \cup {[listOk |-> TRUE, entries |-> d] :
          d \in Directories(FnEntries, MaxListing) \cup {ExampleDirectory}}

IdChars == {"a", "1", "-", "."}

ContainerIds == SeqsUpTo(IdChars, MaxIdLen) \ {<<>>}

Shapes == {"v2", "v1", "systemd-v1", "systemd-v2"}

Uids == {<<"u">>, <<"u", "-", "v">>, <<"u", "_", "v">>}

\* the lines of a cgroup file: the controller list and the path of an entry
\* "<hierarchy>:<controllers>:<path>"
MaxLines == 2

CtlNone == <<>>

CtlCpu ==
  <<"c", "p", "u">>

CtlPids ==
  <<"p", "i", "d", "s">>

CtlCpuPids ==
  <<"c", "p", "u", ",", "p", "i", "d", "s">>

ControllerLists == {CtlNone, CtlCpu, CtlPids, CtlCpuPids}

PathDocker ==
  <<"/", "d", "o", "c", "k", "e", "r", "/", "a", "1">>

PathDockerDashed ==
  <<"/", "d", "o", "c", "k", "e", "r", "/", "a", "-", "1">>

PathScope ==
  <<"/", "s", "y", "s", "t", "e", "m", ".", "s", "l", "i", "c", "e", "/",
    "d", "o", "c", "k", "e", "r", "-", "a", "1", ".", "s", "c", "o", "p",
    "e">>

PathScopeDashed ==
  <<"/", "s", "y", "s", "t", "e", "m", ".", "s", "l", "i", "c", "e", "/",
    "d", "o", "c", "k", "e", "r", "-", "a", "-", "1", ".", "s", "c", "o",
    "p", "e">>

PathOnlySuffix ==
  <<"/", "s", "y", "s", "t", "e", "m", ".", "s", "l", "i", "c", "e", "/",
    ".", "s", "c", "o", "p", "e">>

PathEndsInDash ==
  <<"/", "s", "y", "s", "t", "e", "m", ".", "s", "l", "i", "c", "e", "/",
    "d", "o", "c", "k", "e", "r", "-">>

KubepodsPrefix ==
  <<"/", "k", "u", "b", "e", "p", "o", "d", "s", "/", "b", "e", "s", "t",
    "e", "f", "f", "o", "r", "t", "/", "p", "o", "d">>

SimpleId == <<"a", "1">>

\* the cgroupfs path /kubepods/besteffort/pod<uid>/<id>
V2Path(uid, id) == KubepodsPrefix \o uid \o <<"/">> \o id

CgroupPaths ==
  {PathDocker, PathDockerDashed, PathScope, PathScopeDashed, PathOnlySuffix,
   PathEndsInDash}
  \cup {V2Path(u, SimpleId) : u \in Uids}

CgroupLines == [ctl : ControllerLists, path : CgroupPaths]

\* the text of one entry line; the unified hierarchy has number 0 and no
\* controller
LineText(l) ==
  (IF l.ctl = CtlNone THEN <<"0">> ELSE <<"4">>) \o <<":">> \o l.ctl
  \o <<":">> \o l.path

RECURSIVE JoinLines(_)
JoinLines(ls) ==
  IF ls = <<>> THEN <<>>
  ELSE IF Len(ls) = 1 THEN LineText(ls[1])
  ELSE LineText(Head(ls)) \o <<NL>> \o JoinLines(Tail(ls))

\* the content of a cgroup file with the given entry lines, the last line
\* terminated by a newline or not
CgroupContent(ls, terminated) ==
  JoinLines(ls) \o (IF terminated THEN <<NL>> ELSE <<>>)

\* the content of a cgroup file of the given shape that embeds container ID x
CgroupOfShape(shape, uid, x) ==
  CASE shape = "v2" -> V2Prefix \o uid \o <<"/">> \o x
    [] shape = "v1" -> V1Prefix \o x \o <<NL>>
    [] shape = "systemd-v1" ->
         PidsLinePrefix \o SystemdPrefix \o uid \o SystemdMiddle \o x
         \o ScopeSuffix \o <<NL>>
    [] shape = "systemd-v2" ->
         V2LinePrefix \o SystemdPrefix \o uid \o SystemdMiddle \o x \o ScopeSuffix

\* where the pod list holds a second container, whose ID is other: nowhere,
\* in the pod of the process, or in another pod
Layouts == {"alone", "samePod", "otherPod"}

\* the second container's IDs
OtherIds == {x \in ContainerIds : Len(x) = 1}

\* the pod list of a process whose container has ID x, in pod "podA"
PodsOfLayout(layout, x, other) ==
  CASE layout = "alone" ->
         <<[name |-> "podA", statuses |-> <<SchemeDocker \o x>>]>>
    [] layout = "samePod" ->
         <<[name |-> "podA", statuses |-> <<SchemeDocker \o x, SchemeDocker \o other>>]>>
    [] layout = "otherPod" ->
         <<[name |-> "podA", statuses |-> <<SchemeDocker \o x>>],
           [name |-> "podB", statuses |-> <<SchemeDocker \o other>>]>>

\* the process-table entry of a process in the container of ID x
EntryOfContainer(shape, uid, x) ==
  [name |-> <<"7">>, isDir |-> TRUE,
   cgroup |-> Readable(CgroupOfShape(shape, uid, x)), cmdline |-> Unreadable]

FnInputs ==
  {[op |-> "index", pods |-> pl] : pl \in FnPodLists}
  \cup {[op |-> "cluster", procfs |-> pf, pods |-> pl] :
          pf \in FnProcfs, pl \in PodLists}
  \cup {[op |-> "host", procfs |-> pf, regex |-> re] :
          pf \in FnProcfs, re \in Regexes}
  \cup {[op |-> "roundtrip", shape |-> sh, uid |-> u, x |-> x] :
          sh \in Shapes, u \in Uids, x \in ContainerIds}
  \cup {[op |-> "match", shape |-> sh, uid |-> u, x |-> x, other |-> o,
          layout |-> l] :
          sh \in Shapes, u \in Uids, x \in ContainerIds, o \in OtherIds,
          l \in Layouts}
  \cup {[op |-> "normalize", lines |-> ls, terminated |-> t] :
          ls \in SeqsUpTo(CgroupLines, MaxLines), t \in BOOLEAN}

InitFn ==
  /\ clusterMode = TRUE
  /\ cmdLineRegex = [nil |-> TRUE, pattern |-> <<>>]
  /\ envPids = {}
  /\ tracer = "nil"
  /\ status = "running"
  /\ pc = [p \in Procs |-> IF p = "main" THEN "start" ELSE "off"]
  /\ events = 0
  /\ pids = [p \in Procs |-> <<>>]
  /\ res = [p \in Procs |-> "none"]
  /\ target = NoTargets
  /\ found = [p \in Procs |-> {}]
  /\ tried = [p \in Procs |-> {}]
  /\ added = [p \in Procs |-> NoTargets]
  /\ clears = [p \in Procs |-> 0]
  /\ rejected = [p \in Procs |-> FALSE]
  /\ overlap = [p \in Procs |-> FALSE]
  /\ listErr = [p \in Procs |-> FALSE]
  /\ overtaken = [p \in Procs |-> FALSE]
  /\ lostUpdate = FALSE
  /\ committed = NoTargets
  /\ observed = NoTargets
  /\ obsMid = FALSE
  /\ globalTried = {}
  /\ fnIn \in FnInputs
  /\ fnOut = NoInput

sysVars ==
  <<clusterMode, cmdLineRegex, envPids, tracer, status, pc, events, pids, res,
    target, found, tried, added, clears, rejected, overlap, listErr, overtaken,
    lostUpdate, committed, observed, obsMid, globalTried>>

\* buildContainerIdsMap(pods)
ApplyBuildContainerIdsMap ==
  /\ fnIn.op = "index" /\ fnOut = NoInput
  /\ fnOut' = [op |-> "index", index |-> buildContainerIdsMap(fnIn.pods)]
  /\ UNCHANGED <<sysVars, fnIn>>

\* findContainerPids(procfs, buildContainerIdsMap(pods))
ApplyFindContainerPids ==
  /\ fnIn.op = "cluster" /\ fnOut = NoInput
  /\ LET r == findContainerPids(fnIn.procfs, buildContainerIdsMap(fnIn.pods))
     IN fnOut' = [op |-> "cluster", err |-> r.err, result |-> r.result]
  /\ UNCHANGED <<sysVars, fnIn>>

\* findContainerPidsHost(procfs, cmdLineRegex)
ApplyFindContainerPidsHost ==
  /\ fnIn.op = "host" /\ fnOut = NoInput
  /\ LET r == findContainerPidsHost(fnIn.procfs, fnIn.regex)
     IN fnOut' = [op |-> "host", err |-> r.err, result |-> r.result]
  /\ UNCHANGED <<sysVars, fnIn>>

\* the two identifier sources on one container ID x: getProcessCgroup on a
\* cgroup file embedding x, buildContainerIdsMap on the status "docker://x"
ApplyBothSources ==
  /\ fnIn.op = "roundtrip" /\ fnOut = NoInput
  /\ fnOut' =
       [op |-> "roundtrip",
        cgroup |-> getProcessCgroup(
                     Readable(CgroupOfShape(fnIn.shape, fnIn.uid, fnIn.x))),
        index |-> buildContainerIdsMap(
                    <<[name |-> "podA", statuses |-> <<SchemeDocker \o fnIn.x>>]>>)]
  /\ UNCHANGED <<sysVars, fnIn>>

\* getProcessCgroup on the content of a cgroup file
ApplyGetProcessCgroup ==
  /\ fnIn.op = "normalize" /\ fnOut = NoInput
  /\ LET r == getProcessCgroup(
                Readable(CgroupContent(fnIn.lines, fnIn.terminated)))
     IN fnOut' = [op |-> "normalize", err |-> r.err, id |-> r.id]
  /\ UNCHANGED <<sysVars, fnIn>>

\* findContainerPids on the one process of a container of ID x, with the
\* index of a pod list that holds the container
ApplyMatchProcess ==
  /\ fnIn.op = "match" /\ fnOut = NoInput
  /\ LET index == buildContainerIdsMap(
                    PodsOfLayout(fnIn.layout, fnIn.x, fnIn.other))
         r == findContainerPids(
                [listOk |-> TRUE,
                 entries |-> {EntryOfContainer(fnIn.shape, fnIn.uid, fnIn.x)}],
                index)
     IN fnOut' = [op |-> "match", index |-> index, err |-> r.err,
                  result |-> r.result]
  /\ UNCHANGED <<sysVars, fnIn>>

NextFn ==
  \/ ApplyBuildContainerIdsMap
  \/ ApplyFindContainerPids
  \/ ApplyFindContainerPidsHost
  \/ ApplyBothSources
  \/ ApplyGetProcessCgroup
  \/ ApplyMatchProcess

SpecFn == InitFn /\ [][NextFn]_vars

(***************************************************************************)
(* Claims about the reconciliation passes, checked under Spec              *)
(***************************************************************************)
\* C1: passes are serialized, so the target set never ends up holding a PID
\* that one pass added after the other pass had already cleared the set.
C1_NoLostUpdate == ~lostUpdate

\* C2: when a pass that no other pass overlapped returns without error, the
\* target set of each kind is exactly the set of PIDs this pass discovered
\* and registered successfully for that kind.
C2_TargetIsLastPass ==
  \A p \in Procs :
    (pc[p] = "ret" /\ res[p] = "nil" /\ ~overlap[p]) =>
      \A k \in Kinds : target[k] = added[p][k]

\* C3 as claimed: whenever the poller reads the target set, it finds the set
\* as committed when the last pass returned (initially the empty set).
C3_OnlyCommitted == [][Poll => observed' = committed]_vars

\* the global target of kind k that createTracer has registered, if any
GlobalTargets(k) == IF k \in globalTried THEN {GlobalPid} ELSE {}

\* C3 as amended: whenever the poller reads the target set, every PID it finds
\* was committed by the last pass that returned, or discovered by a pass that
\* is in progress, or is the global target createTracer registered for that
\* kind.
C3_ObservedFromPasses ==
  [][Poll => \A k \in Kinds :
               observed'[k] \subseteq (committed[k] \cup UNION {found[p] : p \in Procs}
                                        \cup GlobalTargets(k))]_vars

\* the poller has read, inside a pass's clear/add sequence, a target set that
\* no pass committed
C3_Witness ==
  /\ obsMid
  /\ globalTried = {}
  /\ observed # committed
  /\ observed # NoTargets

\* C4: a pass that enumerated successfully returns nil after attempting both
\* registrations for every discovered PID, whatever the outcomes were.
C4_AllRegistrationsAttempted ==
  \A p \in Procs :
    (pc[p] = "ret" /\ ~listErr[p]) =>
      /\ res[p] = "nil"
      /\ tried[p] = {<<k, pid>> : k \in Kinds, pid \in found[p]}

\* a pass returned nil although the native-library registration failed for
\* one PID, whose managed-runtime registration succeeded, as did the
\* native-library registration of another PID
C4_Witness ==
  \E p \in Procs :
    /\ pc[p] = "ret" /\ res[p] = "nil" /\ ~overlap[p]
    /\ \E a, b \in found[p] :
         /\ a # b
         /\ a \notin added[p]["ssl"]
         /\ a \in added[p]["go"]
         /\ b \in added[p]["ssl"]

\* C5: when listing the process-table root fails, the pass returns the error
\* and has made no call to the capture engine: no clear, no registration.
C5_ListingFailure ==
  \A p \in Procs :
    listErr[p] =>
      /\ pc[p] = "ret" /\ res[p] = "error"
      /\ clears[p] = 0 /\ tried[p] = {}

\* a pass failed on the listing, in each mode, while targets registered by an
\* earlier pass are in the target set
C5_Witness ==
  \E p \in Procs :
    /\ listErr[p] /\ pc[p] = "ret"
    /\ target["ssl"] # {} /\ target["go"] # {}

\* C6: when the capture engine rejects the clear of a pass, the pass returns
\* an error.
C6_ClearRejectionPropagated ==
  \A p \in Procs : (pc[p] = "ret" /\ rejected[p]) => res[p] = "error"

(***************************************************************************)
(* Claims about the enumerators, the index builder and the normalizer,     *)
(* checked under SpecFn                                                    *)
(***************************************************************************)
\* the positions of the listing whose entry names a process of a known
\* container: a directory with a parsable PID name whose cgroup normalizes
\* to an identifier of the index
Matched(entries, index) ==
  {i \in DOMAIN entries :
     /\ entries[i].isDir
     /\ ~Atoi(entries[i].name).err
     /\ ~getProcessCgroup(entries[i].cgroup).err
     /\ getProcessCgroup(entries[i].cgroup).id \in DOMAIN index}

PidOf(entry) == ToUint32(Atoi(entry.name).n)

\* C7: once the root listing succeeds, cluster-mode enumeration returns no
\* error, and its result maps exactly the PIDs of the entries whose cgroup
\* normalizes to an identifier of the index, each to the pod the index holds
\* for the identifier (of the last such entry, when two entries give one PID).
C7_EnumerationCompletes ==
  (fnOut.op = "cluster" /\ fnIn.procfs.listOk) =>
    LET entries == ReadDir(fnIn.procfs).pids
        index == buildContainerIdsMap(fnIn.pods)
        matched == Matched(entries, index)
    IN /\ ~fnOut.err
       /\ DOMAIN fnOut.result = {PidOf(entries[i]) : i \in matched}
       /\ \A i \in matched :
            (\A j \in matched : j > i => PidOf(entries[j]) # PidOf(entries[i]))
              => fnOut.result[PidOf(entries[i])]
                   = index[getProcessCgroup(entries[i].cgroup).id]

\* a directory listed as "17", "2", "6", whose first entry has an unreadable
\* cgroup file and whose last names a container no pod has: the entry
\* between them is found
C7_Witness ==
  /\ fnOut.op = "cluster"
  /\ fnIn.procfs.entries = {Entry17, Entry2, Entry6}
  /\ DOMAIN fnOut.result = {ToUint32(2)}
  /\ fnOut.result[ToUint32(2)] = PodB

AllDigits(name) == name # <<>> /\ \A i \in 1..Len(name) : name[i] \in Digits

\* the PIDs an enumerator returned
ResultPids == IF fnOut.op = "cluster" THEN DOMAIN fnOut.result ELSE Range(fnOut.result)

\* C8: every PID an enumerator returns is a positive integer, the value of
\* the entirely numeric name of a directory entry; the directory holding
\* "1", "2", "abc" and "17" yields the PIDs 1, 2 and 17 only.
C8_OnlyNumericNames ==
  (fnOut.op \in {"cluster", "host"}) =>
    /\ \A pid \in ResultPids :
         /\ pid # ToUint32(0)
         /\ \E e \in fnIn.procfs.entries :
              /\ AllDigits(e.name)
              /\ pid = ToUint32(DecimalValue(e.name, 0))
    /\ (fnOut.op = "host" /\ fnIn.regex.nil /\ fnIn.procfs.entries = ExampleDirectory)
         => Range(fnOut.result) = {ToUint32(1), ToUint32(2), ToUint32(17)}

SchemeSeparator == <<":", "/", "/">>

\* the positions of st where "://" follows a non-empty scheme
SchemeEnds(st) ==
  {i \in 2..(Len(st) - 2) : SubSeq(st, i, i + 2) = SchemeSeparator}

\* st is of the form <scheme>://<id>
IsSchemeId(st) == SchemeEnds(st) # {}

\* the <id> of a status of the form <scheme>://<id>
IdOf(st) ==
  LET i == CHOOSE i \in SchemeEnds(st) : \A j \in SchemeEnds(st) : i <= j
  IN SubSeq(st, i + 3, Len(st))

\* the container statuses of a pod list
StatusesOf(pods) == UNION {Range(pods[i].statuses) : i \in DOMAIN pods}

\* C9: a container status that is not of the form <scheme>://<id> adds no
\* entry to the index: every key is the <id> of a status of that form, and
\* the statuses "docker://abc123" and "abc123" give the one key "abc123".
C9_MalformedSkipped ==
  fnOut.op = "index" =>
    /\ \A key \in DOMAIN fnOut.index :
         \E st \in StatusesOf(fnIn.pods) : IsSchemeId(st) /\ key = IdOf(st)
    /\ StatusesOf(fnIn.pods) = {StatusAbc123, StatusNoScheme}
         => DOMAIN fnOut.index = {IdOf(StatusAbc123)}

\* C10 as claimed: for every container ID x and every cgroup shape, the
\* normalizer returns x, the key the index builder makes of "docker://x".
C10_RoundTrip ==
  fnOut.op = "roundtrip" =>
    /\ ~fnOut.cgroup.err
    /\ fnOut.cgroup.id = fnIn.x
    /\ DOMAIN fnOut.index = {fnIn.x}

\* x is made of letters and digits only
Alphanumeric(x) == \A i \in 1..Len(x) : x[i] \in Letters \cup Digits

\* C10 as amended: for every container ID x made of letters and digits only
\* and every cgroup shape, the normalizer returns x, the key the index
\* builder makes of "docker://x".
C10_RoundTripAlphanumeric ==
  (fnOut.op = "roundtrip" /\ Alphanumeric(fnIn.x)) =>
    /\ ~fnOut.cgroup.err
    /\ fnOut.cgroup.id = fnIn.x
    /\ DOMAIN fnOut.index = {fnIn.x}

\* the systemd shape, with a pod uid, round-trips the container ID "a1a"
C10_Witness ==
  /\ fnOut.op = "roundtrip"
  /\ fnIn.shape = "systemd-v1"
  /\ fnIn.uid = <<"u", "_", "v">>
  /\ fnIn.x = <<"a", "1", "a">>
  /\ fnOut.cgroup.id = fnIn.x
  /\ DOMAIN fnOut.index = {fnIn.x}

(***************************************************************************)
(* Claims about the normalizer on cgroup file contents, checked under      *)
(* SpecFn                                                                  *)
(***************************************************************************)
\* C11: the normalizer never succeeds with an empty identifier: when no
\* error is returned, the identifier is not the empty string.
C11_NeverEmptyIdentifier ==
  (fnOut.op = "normalize" /\ ~fnOut.err) => fnOut.id # <<>>

\* the controllers of an entry line
ControllersOf(l) == Range(Split(l.ctl, ","))

\* the entry lines of the file that name the pids controller
PidsLines(ls) == {i \in DOMAIN ls : CtlPids \in ControllersOf(ls[i])}

\* C12: for a content of more than one entry line, none of them for the pids
\* controller, the normalizer returns an error and no identifier; a process
\* with such a cgroup file is not in the result of the cluster enumerator.
C12_NoPidsLineFails ==
  /\ (fnOut.op = "normalize" /\ Len(fnIn.lines) > 1 /\ PidsLines(fnIn.lines) = {})
       => (fnOut.err /\ fnOut.id = <<>>)
  /\ (fnOut.op = "cluster"
        /\ \A e \in fnIn.procfs.entries : e.name = Entry4.name => e = Entry4)
       => PidOf(Entry4) \notin DOMAIN fnOut.result

\* two entry lines, for the cpu controller and for the unified hierarchy,
\* that both carry a usable path: the normalizer has failed
C12_Witness ==
  /\ fnOut.op = "normalize"
  /\ fnIn.lines = <<[ctl |-> CtlCpu, path |-> PathDocker],
                    [ctl |-> CtlNone, path |-> PathScope]>>
  /\ fnOut.err

(***************************************************************************)
(* Claims about startup and host-mode enumeration                          *)
(***************************************************************************)
\* C13 (checked under Spec): when the startup pass has returned an error and
\* createTracer has ended, the registration of every configured global
\* target has been attempted all the same.
C13_GlobalsUnconditional ==
  (status = "fatal" /\ pc["main"] = "ret") => envPids \subseteq globalTried

\* the directory entries whose name the enumerator converts to a PID
Candidates(entries) ==
  {i \in DOMAIN entries : entries[i].isDir /\ ~Atoi(entries[i].name).err}

\* C14 (checked under SpecFn): host-mode enumeration of a listing returns no
\* error; with no pattern, the PID of every numeric-named directory entry is
\* in the result; with a pattern, a PID is in the result exactly when an
\* entry of that PID has a readable command line that matches the pattern,
\* wherever in the listing command lines are unreadable.
C14_HostEnumeration ==
  (fnOut.op = "host" /\ fnIn.procfs.listOk) =>
    LET entries == ReadDir(fnIn.procfs).pids
    IN /\ ~fnOut.err
       /\ fnIn.regex.nil =>
            \A i \in DOMAIN entries :
              (entries[i].isDir /\ AllDigits(entries[i].name))
                => ToUint32(DecimalValue(entries[i].name, 0)) \in Range(fnOut.result)
       /\ ~fnIn.regex.nil =>
            \A pid \in Range(fnOut.result) \cup {PidOf(entries[i]) : i \in Candidates(entries)} :
              pid \in Range(fnOut.result)
                <=> \E i \in Candidates(entries) :
                      /\ PidOf(entries[i]) = pid
                      /\ entries[i].cmdline.ok
                      /\ regexMatch(fnIn.regex, entries[i].cmdline.data)

\* with a pattern, a directory listed as "17", "2", "6", whose first entry
\* does not match, whose second has an unreadable command line and whose
\* third matches: the third alone is in the result
C14_Witness ==
  /\ fnOut.op = "host"
  /\ ~fnIn.regex.nil
  /\ fnIn.procfs.entries = {Entry17, Entry2, Entry6}
  /\ fnOut.result = <<ToUint32(6)>>

(***************************************************************************)
(* Claims about line selection and dashes in the normalizer, checked under *)
(* SpecFn                                                                  *)
(***************************************************************************)
\* what the normalizer makes of a cgroup path taken alone
OfPath(path) == getProcessCgroup(Readable(V2LinePrefix \o path))

\* C15: for a content of more than one entry line, one of them at least
\* naming pids in its controller list (alone or with other controllers), the
\* normalizer's outcome is the one the path of such a line gives.
C15_PidsLineSelected ==
  (fnOut.op = "normalize" /\ Len(fnIn.lines) > 1 /\ PidsLines(fnIn.lines) # {}) =>
    \E i \in PidsLines(fnIn.lines) :
      /\ fnOut.err = OfPath(fnIn.lines[i].path).err
      /\ fnOut.id = OfPath(fnIn.lines[i].path).id

\* C16: for the one entry line "0::/kubepods/besteffort/pod<uid>/<id>", with
\* or without a newline at its end, the normalizer returns <id>.
C16_SingleLineV2 ==
  (/\ fnOut.op = "normalize"
   /\ \E u \in Uids :
        fnIn.lines = <<[ctl |-> CtlNone, path |-> V2Path(u, SimpleId)]>>) =>
    (~fnOut.err /\ fnOut.id = SimpleId)

\* the pod of the process of ApplyMatchProcess
OwnPod(pods) == pods[1]

\* C19 as claimed: an identifier the normalizer returns without error
\* contains no "-", and a process whose container ID contains "-" is never
\* matched to its pod.
C19_NoDashNeverMatched ==
  /\ (fnOut.op = "normalize" /\ ~fnOut.err) => "-" \notin Range(fnOut.id)
  /\ (fnOut.op = "roundtrip" /\ ~fnOut.cgroup.err) =>
       "-" \notin Range(fnOut.cgroup.id)
  /\ (fnOut.op = "match" /\ "-" \in Range(fnIn.x)) =>
       \A pid \in DOMAIN fnOut.result :
         fnOut.result[pid]
           # OwnPod(PodsOfLayout(fnIn.layout, fnIn.x, fnIn.other))

\* C19 as amended: an identifier the normalizer returns without error
\* contains no "-"; a process whose container ID contains "-" is therefore
\* never looked up under its container ID: it is matched only when the index
\* holds another key, free of "-", and then to the pod of that key, its own
\* pod or not.
C19_NoDashInIdentifier ==
  /\ (fnOut.op = "normalize" /\ ~fnOut.err) => "-" \notin Range(fnOut.id)
  /\ (fnOut.op = "roundtrip" /\ ~fnOut.cgroup.err) =>
       /\ "-" \notin Range(fnOut.cgroup.id)
       /\ "-" \in Range(fnIn.x) => fnOut.cgroup.id \notin DOMAIN fnOut.index
  /\ (fnOut.op = "match" /\ "-" \in Range(fnIn.x)) =>
       \A pid \in DOMAIN fnOut.result :
         \E key \in DOMAIN fnOut.index :
           /\ key # fnIn.x
           /\ "-" \notin Range(key)
           /\ fnOut.result[pid] = fnOut.index[key]

\* the process of the container "a-1" of podA, with the container "1" in
\* podB: the process has been matched to podB
C19_Witness ==
  /\ fnOut.op = "match"
  /\ fnIn.shape = "systemd-v1"
  /\ fnIn.x = <<"a", "-", "1">>
  /\ fnIn.other = <<"1">>
  /\ fnIn.layout = "otherPod"
  /\ DOMAIN fnOut.result = {ToUint32(7)}
  /\ fnOut.result[ToUint32(7)].name = "podB"

(***************************************************************************)
(* Claims about the order of a pass and the start of the watcher, checked  *)
(* under Spec                                                              *)
(***************************************************************************)
\* C17: in every pass the enumeration is complete before ClearPids is
\* called, ClearPids is called exactly once and before every registration
\* attempt, AddSSLLibPid is attempted for a PID before AddGoPid is, and after
\* the last PID the pass is at its return, which it can take.
C17_OrderOfSteps ==
  \A p \in Procs :
    /\ pc[p] \in {"enum", "clear"} => (clears[p] = 0 /\ tried[p] = {})
    /\ pc[p] = "clear" => Range(pids[p]) = found[p]
    /\ pc[p] \in {"ssl", "go"} => (clears[p] = 1 /\ pids[p] # <<>>)
    /\ (pc[p] = "ret" /\ ~listErr[p]) => (clears[p] = 1 /\ pids[p] = <<>>)
    /\ \A t \in tried[p] : t[2] \in found[p] /\ <<"ssl", t[2]>> \in tried[p]
    /\ pc[p] = "go" => <<"ssl", Head(pids[p])>> \in tried[p]
    /\ pc[p] = "ssl" => <<"go", Head(pids[p])>> \notin tried[p]
    /\ (pc[p] = "ret" /\ status = "running") =>
         ENABLED (StartupPassReturns \/ WatcherPassReturns)

\* a pass over two PIDs is at its return after one call of ClearPids and the
\* four registration attempts
C17_Witness ==
  \E p \in Procs :
    /\ pc[p] = "ret" /\ clears[p] = 1
    /\ Cardinality(found[p]) = 2
    /\ tried[p] = Kinds \X found[p]

\* C18: a pass is in progress only when the global tracer has been created
\* and its initialization has completed successfully.
C18_PassOnlyOnReadyTracer ==
  \A p \in Procs : InPass(p) => tracer = "ready"

====
